---- MODULE Spec2Model ----
(***************************************************************************)
(* The sniper-range simulation of src/index.tsx ("index") and of           *)
(* src/unnamed/part_000 ("part"): mission loading, the frame loop          *)
(* (render), the click handler (handleShoot), the deferred chain reaction  *)
(* and React's batched state updates.                                      *)
(*                                                                         *)
(* React state is modelled as a committed value (what the closures of the  *)
(* last render see) plus a queue of pending updates which Commit applies   *)
(* in order.  Updates made in a discrete event (mousedown, button click)   *)
(* are flushed when the handler returns, so those actions include the      *)
(* commit.  Refs (useRef) and in-place mutations of entity objects take    *)
(* effect at once.                                                         *)
(*                                                                         *)
(* Depth z is kept in half units (z = 700 is 1400) so that the 0.5 step    *)
(* of the flanking behaviour is an integer; projections are compared       *)
(* after multiplying through by z, which is exact.                         *)
(***************************************************************************)
EXTENDS Integers, Sequences, FiniteSets, TLC

Abs(n) == IF n < 0 THEN -n ELSE n

Max(a, b) == IF a < b THEN b ELSE a

Last(s) == s[Len(s)]

\* ------------------------------------------------------------ constants --
MAX_PLAYER_HEALTH == 100

FireDamage == 10

ScaleK == 600

ParallaxD == 400

BlastRadius == 300

NearThreshold == 400

FarDepth == 1000

HalfUnits == 2

Cooldown(v) == IF v = "index" THEN 2000 ELSE 3000

HitHalfWidth(v) == IF v = "index" THEN 25 ELSE 30

HitHalfHeight(v) == IF v = "index" THEN 50 ELSE 60

\* ---------------------------------------------------- environment, bounds --
innerWidth == 1200

innerHeight == 600

StartTime == 10000

MaxFrames == 12

DepthFrames == 1400

DepthGap == 16

Variants == {"index", "part"}

\* Date.now() differences between two consecutive calls of render(),
\* sampled: just over the cooldown of return fire.
FrameGaps(v) == {Cooldown(v) + 1}

\* sin(time + offset) and cos(time * 0.5) at the n-th call of render(),
\* sampled at the frame gap: the sign alternates.
phaseAt(n) == IF n % 2 = 0 THEN 1 ELSE -1

\* (Math.random() - 0.5) * screenShake plus the heartbeat sway, sampled.
SwayOffsets == {<<0, 0>>}

\* clientX, clientY of the mousemove events, sampled: the positions that
\* centre each reachable entity under the scope, and one that centres none.
MousePositions(v) ==
  IF v = "index"
  THEN {<<600, 300>>, <<860, 300>>, <<240, 450>>}
  ELSE {<<600, 300>>, <<1000, 300>>, <<900, 300>>}

\* -------------------------------------------------------------- missions --
Objective(t, d) == [type |-> t, description |-> d]

NoMission ==
  [loaded |-> FALSE, title |-> "", briefing |-> "", hasObjectives |-> FALSE,
   objectives |-> <<>>]

Loaded(title, objs) ==
  [loaded |-> TRUE, title |-> title, briefing |-> "provider briefing",
   hasObjectives |-> TRUE, objectives |-> objs]

\* JSON.parse(response.text || '{}'): what the provider may answer.
ProviderResponses ==
  { Loaded("OP-A", << Objective("destroy", "a1"), Objective("eliminate", "a2") >>),
    Loaded("OP-B", << Objective("retrieve", "b1"), Objective("destroy", "b2") >>),
    Loaded("OP-D", << >>),
    [loaded |-> TRUE, title |-> "OP-E", briefing |-> "provider briefing",
     hasObjectives |-> FALSE, objectives |-> <<>>] }

fallback ==
  [Loaded("SILENT ECHO",
          << Objective("eliminate", "Eliminate the rooftop guard."),
             Objective("destroy", "Destroy the fuel barrels.") >>)
   EXCEPT !.briefing = "API Connection lost. Proceeding with emergency tactical protocols. Clear the sector."]

NumObjectives(m) == Len(m.objectives)

\* -------------------------------------------------------------- entities --
\* z and speed are kept in half units (speed 1.5 is 3).
Entity(id, x, y, z, speed, type, behavior, health, hostile) ==
  [id |-> id, x |-> x, y |-> y, z |-> z * HalfUnits, speed |-> speed,
   type |-> type, isDead |-> FALSE, behavior |-> behavior, health |-> health,
   isHostile |-> hostile, lastFireTime |-> 0]

\* index.tsx: Math.random() positions, one sample of them.
spawnEntitiesIndex ==
  << Entity("hvt-1", 600, innerHeight \div 2, 800, 4, "HVT", "pacing", 100, FALSE),
     Entity("barrel-0", 480, innerHeight \div 2 + 50, 600, 0, "Barrel", "static", 1, FALSE),
     Entity("barrel-1", 490, innerHeight \div 2 + 50, 600, 0, "Barrel", "static", 1, FALSE),
     Entity("barrel-2", 900, innerHeight \div 2 + 50, 960, 0, "Barrel", "static", 1, FALSE),
     Entity("barrel-3", 1100, innerHeight \div 2 + 50, 600, 0, "Barrel", "static", 1, FALSE),
     Entity("barrel-4", 1180, innerHeight \div 2 + 50, 600, 0, "Barrel", "static", 1, FALSE),
     Entity("guard-1", 200, innerHeight \div 2, 700, 3, "Bodyguard", "flanking", 100, TRUE),
     Entity("intel-1", innerWidth \div 2 + 100, innerHeight \div 2 + 20, 650, 0, "Intel", "static", 10, FALSE) >>

spawnEntitiesPart ==
  << Entity("hvt-1", 800, innerHeight \div 2, 800, 4, "HVT", "pacing", 100, FALSE),
     Entity("guard-1", 200, innerHeight \div 2, 700, 3, "Bodyguard", "flanking", 100, TRUE),
     Entity("intel-1", innerWidth \div 2, innerHeight \div 2 + 20, 650, 0, "Intel", "static", 10, FALSE),
     Entity("barrel-0", 300, innerHeight \div 2 + 50, 600, 0, "Barrel", "static", 1, FALSE),
     Entity("barrel-1", 700, innerHeight \div 2 + 50, 600, 0, "Barrel", "static", 1, FALSE),
     Entity("barrel-2", 1100, innerHeight \div 2 + 50, 600, 0, "Barrel", "static", 1, FALSE) >>

spawnEntities(v) == IF v = "index" THEN spawnEntitiesIndex ELSE spawnEntitiesPart

\* ------------------------------------------------------------ projection --
\* z * (world - (pointer - centre) * (1 - 400 / z)), the projected
\* coordinate times the depth (zh is the depth in half units).
ProjectTimesZ(world, pointer, centre, zh) ==
  world * zh - (pointer - centre) * (zh - ParallaxD * HalfUnits)

\* Math.abs(impact - r) < half * scale, scale = 600 / z.  With z <= 0 the
\* scale is Infinity, NaN or negative and the comparison is false.
WithinExtent(impact, world, pointer, centre, zh, half) ==
  /\ zh > 0
  /\ Abs(impact * zh - ProjectTimesZ(world, pointer, centre, zh)) < half * ScaleK * HalfUnits

\* a hit test that takes the box half as wide as render() draws it
isHitNarrow(v, ent, mouse, sway) ==
  /\ WithinExtent(innerWidth + 2 * sway[1], 2 * ent.x, 2 * mouse[1], innerWidth,
                  ent.z, HitHalfWidth(v))
  /\ WithinExtent(innerHeight + 2 * sway[2], 2 * ent.y, 2 * mouse[2], innerHeight,
                  ent.z, 2 * HitHalfHeight(v))

\* handleShoot's test of one entity.  Screen coordinates are doubled, so
\* that window.innerWidth / 2 is exact for an odd width.
isHit(v, ent, mouse, sway) ==
  /\ WithinExtent(innerWidth + 2 * sway[1], 2 * ent.x, 2 * mouse[1], innerWidth,
                  ent.z, 2 * HitHalfWidth(v))
  /\ WithinExtent(innerHeight + 2 * sway[2], 2 * ent.y, 2 * mouse[2], innerHeight,
                  ent.z, 2 * HitHalfHeight(v))

\* render(): canvas.width = window.innerWidth, canvas.height likewise
canvasSize == << innerWidth, innerHeight >>

\* render()'s rx and ry of an entity, doubled and times the depth
renderProjection(ent, mouse) ==
  << 2 * ent.x * ent.z
       - (2 * mouse[1] - canvasSize[1]) * (ent.z - ParallaxD * HalfUnits),
     2 * ent.y * ent.z
       - (2 * mouse[2] - canvasSize[2]) * (ent.z - ParallaxD * HalfUnits) >>

\* handleShoot's rx and ry of an entity, doubled and times the depth
shootProjection(ent, mouse) ==
  << ProjectTimesZ(2 * ent.x, 2 * mouse[1], innerWidth, ent.z),
     ProjectTimesZ(2 * ent.y, 2 * mouse[2], innerHeight, ent.z) >>

\* -------------------------------------------------------------- state ----
VARIABLES
  variant,        \* which source file runs
  missionRequest, \* "pending" while generateContent is awaited
  mission,        \* useState<Mission | null>
  isLoading,      \* useState(true)
  gameState,      \* useState('briefing'), committed
  currentObjIndex,\* useState(0), committed
  playerHealth,   \* index.tsx: useState(MAX_PLAYER_HEALTH), committed
  playerHealthRef,\* part_000: playerHealthRef.current
  healthUI,       \* part_000: useState(MAX_PLAYER_HEALTH), committed
  entities,       \* index.tsx: entities state; part_000: entitiesRef.current
  pendGameState,  \* queued setGameState values
  pendHealth,     \* queued setPlayerHealth updaters / setHealthUI values
  particles,      \* index.tsx: particles state; part_000: particlesRef.current
  pendParticles,  \* index.tsx: queued setParticles updaters
  spawned,        \* particles created so far; a particle's id is its rank
  shotsFired,     \* index.tsx: useState(0); part_000: clicks handled so far
  speech,         \* how the speakSpotter calls that have returned ended
  pendEntities,   \* queued setEntities(currentEntities => ...) updaters
  pendRender,     \* some setState is queued and not yet rendered
  timers,         \* setTimeout callbacks not yet run (barrel indices)
  narration,      \* texts passed to speakSpotter, in order
  now,            \* Date.now()
  frames,         \* calls of render() so far
  mousePos,       \* mousePos.current
  swayOffset,     \* swayOffset.current
  crashed         \* an exception unmounted the component

vars ==
  << variant, missionRequest, mission, isLoading, gameState, currentObjIndex,
     playerHealth, playerHealthRef, healthUI, entities, pendGameState,
     pendHealth, pendEntities, pendRender, timers, narration, now, frames,
     mousePos, swayOffset, crashed, particles, pendParticles, spawned,
     shotsFired, speech >>

\* The particle list and the shot counter are written by render() and
\* handleShoot and read back by the drawing code only.  Spec, SpecDepth and
\* SpecProjection follow the game state and leave them where they are;
\* SpecParticles follows both.
particleVars == << particles, pendParticles, spawned, shotsFired >>

\* What the game writes and never reads back: the particles, the shot
\* counter and the outcome of the narration requests.  SpecSpeech follows
\* the narration requests to their end.
effectVars == << particleVars, speech >>

Init ==
  /\ variant \in Variants
  /\ missionRequest = "pending"
  /\ mission = NoMission
  /\ isLoading = TRUE
  /\ gameState = "briefing"
  /\ currentObjIndex = 0
  /\ playerHealth = MAX_PLAYER_HEALTH
  /\ playerHealthRef = MAX_PLAYER_HEALTH
  /\ healthUI = MAX_PLAYER_HEALTH
  /\ entities = << >>
  /\ pendGameState = << >>
  /\ pendHealth = << >>
  /\ pendEntities = << >>
  /\ pendRender = FALSE
  /\ timers = {}
  /\ narration = << >>
  /\ now = StartTime
  /\ frames = 0
  /\ mousePos = IF variant = "index" THEN <<0, 0>>
                ELSE <<innerWidth \div 2, innerHeight \div 2>>
  /\ swayOffset = <<0, 0>>
  /\ crashed = FALSE
  /\ particles = << >>
  /\ pendParticles = << >>
  /\ spawned = 0
  /\ shotsFired = 0
  /\ speech = {}

\* ---------------------------------------------------------- frame loop ---
\* a flanking step that lets the entity come on past the near threshold
behaviorStepNoReset(ent, ph) ==
  IF ent.isDead THEN ent
  ELSE IF ent.behavior = "pacing"
       THEN [ent EXCEPT !.x = @ + ph * (ent.speed \div HalfUnits)]
  ELSE IF ent.behavior = "flanking"
       THEN [ent EXCEPT !.x = @ + ph * 2, !.z = @ - 1]
  ELSE ent

\* AI behaviours of one living entity; ph samples the sinusoid.
behaviorStepIndex(ent, ph) ==
  IF ent.isDead THEN ent
  ELSE IF ent.behavior = "pacing"
       THEN [ent EXCEPT !.x = @ + ph * (ent.speed \div HalfUnits)]
  ELSE IF ent.behavior = "flanking"
       THEN [ent EXCEPT !.x = @ + ph * 2,
                        !.z = IF @ - 1 < NearThreshold * HalfUnits
                              THEN FarDepth * HalfUnits ELSE @ - 1]
  ELSE ent

behaviorStepPart(ent, ph) ==
  IF ent.isDead THEN ent
  ELSE IF ent.behavior = "pacing"
       THEN [ent EXCEPT !.x = @ + ph * (ent.speed \div HalfUnits)]
  ELSE IF ent.behavior = "flanking"
       THEN [ent EXCEPT !.x = @ + ph * 2, !.z = @ - 1]
  ELSE ent

behaviorStep(v, ent, ph) ==
  IF v = "index" THEN behaviorStepIndex(ent, ph) ELSE behaviorStepPart(ent, ph)

\* a return fire that the dead keep up
firesWhenDead(v, ent, t) ==
  /\ ent.isHostile
  /\ t - ent.lastFireTime > Cooldown(v)

\* a return fire that does not wait for the cooldown
firesAnyTime(v, ent, t) ==
  /\ ~ent.isDead
  /\ ent.isHostile

\* Return fire: ent.isHostile && Date.now() - ent.lastFireTime > cooldown,
\* inside if (!ent.isDead).
fires(v, ent, t) ==
  /\ ~ent.isDead
  /\ ent.isHostile
  /\ t - ent.lastFireTime > Cooldown(v)

renderEntity(v, ent, t, ph) ==
  IF fires(v, ent, t)
  THEN [behaviorStep(v, ent, ph) EXCEPT !.lastFireTime = t]
  ELSE behaviorStep(v, ent, ph)

renderEntities(v, ents, t, ph) ==
  [i \in DOMAIN ents |-> renderEntity(v, ents[i], t, ph)]

\* a damage count that takes every hostile entity for a shooter
fireCountHostile(v, ents, t) ==
  Cardinality({i \in DOMAIN ents : ents[i].isHostile})

\* the entities that pass the return-fire test in one call of render()
fireCount(v, ents, t) ==
  Cardinality({i \in DOMAIN ents : fires(v, ents[i], t)})

\* index.tsx: prev => Math.max(0, prev - 10)
healthUpdater(prev) == Max(0, prev - FireDamage)

\* part_000: playerHealthRef.current -= 10
healthRefAfterFire(prev) == prev - FireDamage

RECURSIVE Repeat(_, _)
Repeat(x, n) == IF n = 0 THEN << >> ELSE <<x>> \o Repeat(x, n - 1)

RECURSIVE applyHealthUpdaters(_, _)
applyHealthUpdaters(h, q) ==
  IF q = << >> THEN h ELSE applyHealthUpdaters(healthUpdater(h), Tail(q))

RECURSIVE healthRefAfterFires(_, _)
healthRefAfterFires(h, n) ==
  IF n = 0 THEN h ELSE healthRefAfterFires(healthRefAfterFire(h), n - 1)

\* the values setHealthUI receives in one frame, in order
RECURSIVE healthUIValues(_, _)
healthUIValues(h, n) ==
  IF n = 0 THEN << >>
  ELSE <<healthRefAfterFire(h)>> \o healthUIValues(healthRefAfterFire(h), n - 1)

\* index.tsx reads mission.objectives[currentObjIndex].description in the HUD.
hudThrows(m, idx) == ~m.hasObjectives \/ idx + 1 > NumObjectives(m)

\* if (playerHealth <= 0) / if (playerHealthRef.current <= 0)
failureCheck(h) == h <= 0

FailureText == <<"Agent neutralized. Mission failed.">>

\* One call of render().  closureHealth and closureIdx are the values of
\* the React state the effect closed over; ents, qGS, qH, narr are the
\* entity array, the pending-update queues and the narration log as the
\* call finds them; cap bounds the number of calls.
Render(cap, closureHealth, closureIdx, ents, qGS, qH, narr, gap, sw) ==
  LET t == now + gap
      ph == phaseAt(frames)
      n == fireCount(variant, ents, t)
      ref1 == healthRefAfterFires(playerHealthRef, n)
  IN
  /\ frames < cap
  /\ frames' = frames + 1
  /\ now' = t
  /\ swayOffset' = sw
  /\ entities' = renderEntities(variant, ents, t, ph)
  /\ IF variant = "index"
     THEN /\ playerHealthRef' = playerHealthRef
          /\ pendHealth' = qH \o Repeat(FireDamage, n)
          /\ pendRender' = TRUE
          /\ IF hudThrows(mission, closureIdx)
             THEN /\ crashed' = TRUE
                  /\ pendGameState' = qGS
                  /\ narration' = narr
             ELSE /\ crashed' = crashed
                  /\ IF failureCheck(closureHealth)
                     THEN /\ pendGameState' = Append(qGS, "failure")
                          /\ narration' = Append(narr, FailureText)
                     ELSE /\ pendGameState' = qGS
                          /\ narration' = narr
     ELSE /\ playerHealthRef' = ref1
          /\ pendHealth' = qH \o healthUIValues(playerHealthRef, n)
          /\ crashed' = crashed
          /\ narration' = narr
          /\ IF failureCheck(ref1)
             THEN pendGameState' = Append(qGS, "failure")
             ELSE pendGameState' = qGS
          /\ pendRender' = (qGS # << >> \/ qH # << >> \/ n > 0 \/ failureCheck(ref1))

\* ------------------------------------------------------ mission loading --
IntroText(m) == <<"Mission", m.title, m.objectives[1].description>>

\* data.objectives[0].description throws when there is no first objective
introThrows(r) == ~r.hasObjectives \/ NumObjectives(r) = 0

\* generateMission after the await, the provider having answered r
MissionResponse ==
  /\ missionRequest = "pending"
  /\ \E r \in ProviderResponses :
       /\ missionRequest' = "done"
       /\ isLoading' = FALSE
       /\ entities' = spawnEntities(variant)
       /\ IF variant = "index"
          THEN /\ mission' = r
               /\ narration' = IF introThrows(r) THEN narration
                               ELSE Append(narration, IntroText(r))
               \* the briefing panel maps over mission.objectives
               /\ crashed' = ~r.hasObjectives
          ELSE /\ mission' = IF introThrows(r) THEN fallback ELSE r
               /\ narration' = IF introThrows(r) THEN narration
                               ELSE Append(narration, IntroText(r))
               /\ crashed' = crashed
  /\ UNCHANGED << variant, gameState, currentObjIndex, playerHealth,
                  playerHealthRef, healthUI, pendGameState, pendHealth,
                  pendEntities, pendRender, timers, now, frames, mousePos, swayOffset >>

\* generateMission, the provider call having rejected
MissionFailure ==
  /\ missionRequest = "pending"
  /\ missionRequest' = "failed"
  /\ isLoading' = FALSE
  /\ IF variant = "index"
     THEN UNCHANGED << mission, entities >>
     ELSE /\ mission' = fallback
          /\ entities' = spawnEntities(variant)
  /\ UNCHANGED << variant, gameState, currentObjIndex, playerHealth,
                  playerHealthRef, healthUI, pendGameState, pendHealth,
                  pendEntities, pendRender, timers, narration, now, frames,
                  mousePos, swayOffset, crashed >>

\* handleMouseMove.  mousePos is read by render() and handleShoot only,
\* which act while playing; moves at other times are left out.
MouseMove ==
  /\ ~crashed
  /\ gameState = "playing"
  /\ \E m \in MousePositions(variant) : m # mousePos /\ mousePos' = m
  /\ UNCHANGED << variant, missionRequest, mission, isLoading, gameState,
                  currentObjIndex, playerHealth, playerHealthRef, healthUI,
                  entities, pendGameState, pendHealth, pendEntities,
                  pendRender, timers, narration, now, frames, swayOffset, crashed >>

\* The briefing button: setGameState('playing'); the commit runs the render
\* effect, which calls render() once at once.
Accept ==
  /\ ~crashed
  /\ ~isLoading
  /\ gameState = "briefing"
  /\ mission.loaded
  /\ gameState' = "playing"
  /\ \E gap \in FrameGaps(variant), sw \in SwayOffsets :
       Render(MaxFrames, playerHealth, currentObjIndex, entities, pendGameState,
              pendHealth, narration, gap, sw)
  /\ UNCHANGED << variant, missionRequest, mission, isLoading,
                  currentObjIndex, playerHealth, healthUI, pendEntities,
                  timers, mousePos >>

\* requestAnimationFrame(render): the loop of the effect of the last commit
Tick ==
  /\ ~crashed
  /\ gameState = "playing"
  /\ mission.loaded
  /\ \E gap \in FrameGaps(variant), sw \in SwayOffsets :
       Render(MaxFrames, playerHealth, currentObjIndex, entities, pendGameState,
              pendHealth, narration, gap, sw)
  /\ UNCHANGED << variant, missionRequest, mission, isLoading, gameState,
                  currentObjIndex, playerHealth, healthUI, pendEntities,
                  timers, mousePos >>

\* ---------------------------------------------------------------- clicks --
\* a handler that lacks the game-state guard
canShootAlways(gs) == TRUE

\* if (gameState !== 'playing') return;
canShoot(gs) == gs = "playing"

\* the living entities whose scaled box holds the impact point
hitSet(v, ents, mouse, sway) ==
  {i \in DOMAIN ents : ~ents[i].isDead /\ isHit(v, ents[i], mouse, sway)}

\* mission?.objectives[currentObjIndex]?.type
currentObjType(m, idx) ==
  IF idx + 1 <= NumObjectives(m) THEN m.objectives[idx + 1].type ELSE "undefined"

\* an adjudication that lets a kill of the target count as reconnaissance
satisfiesScouted(type, kind) ==
  \/ type = "Barrel" /\ kind = "destroy"
  \/ type = "Intel" /\ kind = "retrieve"
  \/ type = "HVT" /\ kind = "eliminate"
  \/ type = "HVT" /\ kind = "recon"

\* an adjudication that lets any kill count for the active objective
satisfiesAny(type, kind) == kind \in {"destroy", "retrieve", "eliminate"}

\* the objective adjudication of a struck entity
satisfies(type, kind) ==
  \/ type = "Barrel" /\ kind = "destroy"
  \/ type = "Intel" /\ kind = "retrieve"
  \/ type = "HVT" /\ kind = "eliminate"

satisfyingHits(ents, hits, m, idx) ==
  {i \in hits : satisfies(ents[i].type, currentObjType(m, idx))}

\* nextIndex >= mission.objectives.length
isLastObjective(m, idx) == idx + 1 >= NumObjectives(m)

\* an advanceObjective that narrates but leaves the index alone
advancedIndexStuck(idx, k) == idx

\* an advanceObjective that counts on from the queued index
advancedIndexPerEntity(idx, k) == idx + k

\* index.tsx: setCurrentObjIndex(nextIndex), once per satisfying entity
advancedIndexIndex(idx, k) == IF k > 0 THEN idx + 1 ELSE idx

\* part_000: setCurrentObjIndex(prev => prev + 1), once per satisfying entity
advancedIndexPart(idx, k) == idx + k

SuccessText(v) ==
  IF v = "index" THEN <<"All objectives clear. Area sanitized. Good work.">>
  ELSE <<"Mission accomplished.">>

NextText(m, idx) == <<"Next", m.objectives[idx + 2].description>>

\* a strike that sets the dead flag the way the blast does
killedLikeBlast(ent) == [ent EXCEPT !.isDead = TRUE]

\* return { ...ent, isDead: true, health: 0 }
killedIndex(ent) == [ent EXCEPT !.isDead = TRUE, !.health = 0]

\* ent.isDead = true
killedPart(ent) == [ent EXCEPT !.isDead = TRUE]

\* the value React keeps for a state with queue q of plain values
lastOr(q, committed) == IF q = << >> THEN committed ELSE Last(q)

\* Math.hypot(ent.x - other.x, ent.y - other.y) < 300 && other.id !== ent.id
inBlast(ent, other) ==
  /\ (ent.x - other.x) * (ent.x - other.x) + (ent.y - other.y) * (ent.y - other.y)
       < BlastRadius * BlastRadius
  /\ other.id # ent.id

\* a chain reaction that writes the blast test itself into the dead flag
chainUpdaterRevive(ents, b) ==
  [i \in DOMAIN ents |-> [ents[i] EXCEPT !.isDead = inBlast(ents[b], ents[i])]]

\* currentEntities => currentEntities.map(...), for the barrel at index b
chainUpdater(ents, b) ==
  [i \in DOMAIN ents |->
     IF inBlast(ents[b], ents[i]) THEN [ents[i] EXCEPT !.isDead = TRUE] ELSE ents[i]]

RECURSIVE applyEntityUpdaters(_, _)
applyEntityUpdaters(ents, q) ==
  IF q = << >> THEN ents
  ELSE applyEntityUpdaters(chainUpdater(ents, Head(q)), Tail(q))

\* index.tsx handleShoot (mousedown on the canvas), the flush of the
\* updates it queued and the render effect that the commit re-runs.
\* setEntities(nextEntities) comes after any queued chain updater, and
\* replaces what those computed.
HandleShootIndex ==
  /\ variant = "index"
  /\ ~crashed
  /\ ~isLoading
  /\ canShoot(gameState)
  /\ LET hits == hitSet(variant, entities, mousePos, swayOffset)
         k == Cardinality(satisfyingHits(entities, hits, mission, currentObjIndex))
         last == isLastObjective(mission, currentObjIndex)
         nextEntities == [i \in DOMAIN entities |->
                            IF i \in hits THEN killedIndex(entities[i]) ELSE entities[i]]
         qGS == pendGameState \o (IF last THEN Repeat("success", k) ELSE << >>)
         gs1 == lastOr(qGS, gameState)
         idx1 == IF last THEN currentObjIndex
                 ELSE advancedIndexIndex(currentObjIndex, k)
         hp1 == applyHealthUpdaters(playerHealth, pendHealth)
         narr1 == narration \o
                  (IF k = 0 THEN << >>
                   ELSE IF last THEN Repeat(SuccessText(variant), k)
                   ELSE Repeat(NextText(mission, currentObjIndex), k))
     IN
     /\ gameState' = gs1
     /\ currentObjIndex' = idx1
     /\ playerHealth' = hp1
     /\ timers' = timers \cup {i \in hits : entities[i].type = "Barrel"}
     /\ pendEntities' = << >>
     /\ IF gs1 = "playing"
        THEN \E gap \in FrameGaps(variant), sw \in SwayOffsets :
               Render(MaxFrames, hp1, idx1, nextEntities, << >>, << >>, narr1, gap, sw)
        ELSE /\ entities' = nextEntities
             /\ narration' = narr1
             /\ pendGameState' = << >>
             /\ pendHealth' = << >>
             /\ pendRender' = FALSE
             /\ UNCHANGED << playerHealthRef, now, frames, swayOffset, crashed >>
  /\ UNCHANGED << variant, missionRequest, mission, isLoading, healthUI, mousePos >>

\* part_000 handleShoot.  It queues a state update only for a satisfying
\* hit; React then flushes every queued update when the handler returns.
\* The render effect depends on gameState and mission only.
HandleShootPart ==
  /\ variant = "part"
  /\ ~crashed
  /\ ~isLoading
  /\ canShoot(gameState)
  /\ LET hits == hitSet(variant, entities, mousePos, swayOffset)
         k == Cardinality(satisfyingHits(entities, hits, mission, currentObjIndex))
         last == isLastObjective(mission, currentObjIndex)
         qGS == pendGameState \o (IF last THEN Repeat("success", k) ELSE << >>)
     IN
     /\ entities' = [i \in DOMAIN entities |->
                       IF i \in hits THEN killedPart(entities[i]) ELSE entities[i]]
     /\ narration' = narration \o
                  (IF k = 0 THEN << >>
                   ELSE IF last THEN Repeat(SuccessText(variant), k)
                   ELSE Repeat(NextText(mission, currentObjIndex), k))
     /\ IF k = 0
        THEN UNCHANGED << gameState, currentObjIndex, healthUI, pendGameState,
                          pendHealth, pendRender >>
        ELSE /\ gameState' = lastOr(qGS, gameState)
             /\ currentObjIndex' = IF last THEN currentObjIndex
                                   ELSE advancedIndexPart(currentObjIndex, k)
             /\ healthUI' = lastOr(pendHealth, healthUI)
             /\ pendGameState' = << >>
             /\ pendHealth' = << >>
             /\ pendRender' = FALSE
  /\ UNCHANGED << variant, missionRequest, mission, isLoading, playerHealth,
                  playerHealthRef, pendEntities, timers, now, frames, mousePos, swayOffset, crashed >>

\* index.tsx: the setTimeout(..., 50) callback of a barrel hit
ChainReaction ==
  /\ ~crashed
  /\ \E b \in timers :
       /\ timers' = timers \ {b}
       /\ pendEntities' = Append(pendEntities, b)
  /\ pendRender' = TRUE
  /\ UNCHANGED << variant, missionRequest, mission, isLoading, gameState,
                  currentObjIndex, playerHealth, playerHealthRef, healthUI,
                  entities, pendGameState, pendHealth, narration, now, frames,
                  mousePos, swayOffset, crashed >>

\* ---------------------------------------------------------------- commit --
\* index.tsx: React renders the queued updates; every dependency change
\* while playing re-runs the render effect, which calls render() at once.
CommitIndex ==
  /\ variant = "index"
  /\ ~crashed
  /\ pendRender
  /\ LET gs1 == lastOr(pendGameState, gameState)
         hp1 == applyHealthUpdaters(playerHealth, pendHealth)
         ents1 == applyEntityUpdaters(entities, pendEntities)
     IN
     /\ gameState' = gs1
     /\ playerHealth' = hp1
     /\ pendEntities' = << >>
     /\ IF gs1 = "playing" /\ mission.loaded
        THEN \E gap \in FrameGaps(variant), sw \in SwayOffsets :
               Render(MaxFrames, hp1, currentObjIndex, ents1, << >>, << >>, narration,
                      gap, sw)
        ELSE /\ entities' = ents1
             /\ pendGameState' = << >>
             /\ pendHealth' = << >>
             /\ pendRender' = FALSE
             /\ UNCHANGED << playerHealthRef, narration, now, frames, swayOffset, crashed >>
  /\ UNCHANGED << variant, missionRequest, mission, isLoading,
                  currentObjIndex, healthUI, timers, mousePos >>

\* part_000: React renders the queued updates; leaving 'playing' cancels
\* the animation frame.
CommitPart ==
  /\ variant = "part"
  /\ ~crashed
  /\ pendRender
  /\ gameState' = lastOr(pendGameState, gameState)
  /\ healthUI' = lastOr(pendHealth, healthUI)
  /\ pendGameState' = << >>
  /\ pendHealth' = << >>
  /\ pendRender' = FALSE
  /\ UNCHANGED << variant, missionRequest, mission, isLoading,
                  currentObjIndex, playerHealth, playerHealthRef, entities,
                  pendEntities, timers, narration, now, frames, mousePos, swayOffset, crashed >>

Next ==
  \/ MissionResponse /\ UNCHANGED effectVars
  \/ MissionFailure /\ UNCHANGED effectVars
  \/ MouseMove /\ UNCHANGED effectVars
  \/ Accept /\ UNCHANGED effectVars
  \/ Tick /\ UNCHANGED effectVars
  \/ HandleShootIndex /\ UNCHANGED effectVars
  \/ HandleShootPart /\ UNCHANGED effectVars
  \/ ChainReaction /\ UNCHANGED effectVars
  \/ CommitIndex /\ UNCHANGED effectVars
  \/ CommitPart /\ UNCHANGED effectVars

Spec == Init /\ [][Next]_vars

\* ------------------------------------------------- the long frame loop ---
\* requestAnimationFrame(render) at the display rate, for as many frames as
\* the flanking guard needs to reach the camera plane.
DepthTick ==
  /\ ~crashed
  /\ gameState = "playing"
  /\ mission.loaded
  /\ \E sw \in SwayOffsets :
       Render(DepthFrames, playerHealth, currentObjIndex, entities,
              pendGameState, pendHealth, narration, DepthGap, sw)
  /\ UNCHANGED << variant, missionRequest, mission, isLoading, gameState,
                  currentObjIndex, playerHealth, healthUI, pendEntities,
                  timers, mousePos >>

NextDepth ==
  \/ MissionResponse /\ UNCHANGED effectVars
  \/ MissionFailure /\ UNCHANGED effectVars
  \/ Accept /\ UNCHANGED effectVars
  \/ DepthTick /\ UNCHANGED effectVars
  \/ CommitIndex /\ UNCHANGED effectVars
  \/ CommitPart /\ UNCHANGED effectVars

SpecDepth == Init /\ [][NextDepth]_vars

\* ============================================================ properties ==
\* What an observer of the game reads.
\* the player's health: React state in index.tsx, the ref in part_000
Health == IF variant = "index" THEN playerHealth ELSE playerHealthRef

\* the health once every deduction already requested has been applied
RequestedHealth ==
  IF variant = "index" THEN applyHealthUpdaters(playerHealth, pendHealth)
  ELSE playerHealthRef

ClickStep == HandleShootIndex \/ HandleShootPart

\* the adjudication table of the specification
Matches(type, kind) ==
  <<type, kind>> \in {<<"Barrel", "destroy">>, <<"Intel", "retrieve">>,
                      <<"HVT", "eliminate">>}

LivingHits == hitSet(variant, entities, mousePos, swayOffset)

SatisfyingHit ==
  \E i \in LivingHits :
    Matches(entities[i].type, currentObjType(mission, currentObjIndex))

OnLastObjective == currentObjIndex = NumObjectives(mission) - 1

Occurrences(q, x) == Cardinality({i \in DOMAIN q : q[i] = x})

NewlyNarrated(text) ==
  \E j \in (Len(narration) + 1)..Len(narration') : narration'[j] = text

FiresInStep ==
  Cardinality({i \in DOMAIN entities :
                 entities'[i].lastFireTime # entities[i].lastFireTime})

\* C1: in every reachable state the active objective index lies in 0..N-1,
\* N being the number of objectives of the loaded mission.
C1_IndexInRange ==
  (mission.loaded /\ ~crashed) =>
    currentObjIndex \in 0..(NumObjectives(mission) - 1)

\* C1, for a mission that has objectives: the index is in 0..N-1, never
\* decreases, and no step raises it by more than one.
C1_IndexInRangeWellFormed ==
  (mission.loaded /\ NumObjectives(mission) > 0) =>
    currentObjIndex \in 0..(NumObjectives(mission) - 1)

C1_IndexMonotone ==
  [][currentObjIndex' \in {currentObjIndex, currentObjIndex + 1}]_vars

\* C2: a click while playing changes objective progress (the index goes up
\* or the game is won) exactly when it hits a living entity whose kind
\* matches the active objective: Barrel/destroy, Intel/retrieve,
\* HVT/eliminate.
C2_ProgressIffSatisfyingHit ==
  [][(ClickStep /\ gameState = "playing") =>
       ((\/ currentObjIndex' # currentObjIndex
         \/ gameState' = "success")
        <=> SatisfyingHit)]_vars

C2_Witness ==
  /\ gameState = "playing"
  /\ currentObjIndex = 1
  /\ mission.objectives[1].type = "retrieve"
  /\ \E i \in DOMAIN entities : entities[i].type = "Intel" /\ entities[i].isDead
  /\ \E i \in DOMAIN entities : entities[i].type = "HVT" /\ entities[i].isDead

\* C3 as stated: on a satisfying hit while playing, on the last objective
\* the game state becomes success and the index is unchanged; otherwise the
\* index becomes index+1, the game state stays playing and the description
\* of objective index+1 is narrated.
C3_SatisfyingHitStaysPlaying ==
  [][(ClickStep /\ gameState = "playing" /\ SatisfyingHit) =>
       IF OnLastObjective
       THEN gameState' = "success" /\ currentObjIndex' = currentObjIndex
       ELSE /\ currentObjIndex' = currentObjIndex + 1
            /\ gameState' = "playing"
            /\ NewlyNarrated(NextText(mission, currentObjIndex))]_vars

\* C3, amended: as above, except that off the last objective the game state
\* stays playing only if the frame loop has no failure request waiting to
\* be committed; with one waiting, the click's commit makes it failure.
C3_SatisfyingHit ==
  [][(ClickStep /\ gameState = "playing" /\ SatisfyingHit) =>
       IF OnLastObjective
       THEN gameState' = "success" /\ currentObjIndex' = currentObjIndex
       ELSE /\ currentObjIndex' = currentObjIndex + 1
            /\ gameState' = IF Occurrences(pendGameState, "failure") > 0
                            THEN "failure" ELSE "playing"
            /\ NewlyNarrated(NextText(mission, currentObjIndex))]_vars

C3_Witness ==
  /\ gameState = "success"
  /\ currentObjIndex = 1
  /\ NumObjectives(mission) = 2
  /\ mission.objectives[1].type = "destroy"
  /\ mission.objectives[2].type = "eliminate"
  /\ Occurrences(narration, NextText(mission, 0)) > 0

\* C4: the game state moves only briefing -> playing, playing -> success
\* (a satisfying hit on the last objective) and playing -> failure (health
\* at 0); success and failure are never left.
C4_Transitions ==
  [][gameState' # gameState =>
       \/ gameState = "briefing" /\ gameState' = "playing"
       \/ /\ gameState = "playing" /\ gameState' = "success"
          /\ ClickStep /\ SatisfyingHit /\ OnLastObjective
       \/ /\ gameState = "playing" /\ gameState' = "failure"
          /\ Health' <= 0]_vars

C4_Witness ==
  /\ gameState = "failure"
  /\ currentObjIndex = 1
  /\ Health <= 0

\* C5: the player's health stays within 0..100 in every reachable state.
C5_HealthInRange == Health >= 0 /\ Health <= MAX_PLAYER_HEALTH

\* C6: failure is requested once per run: no tick at health 0 sets the
\* game state to failure, or asks for the failure narration, a second time.
C6_FailureOnce ==
  /\ Occurrences(pendGameState, "failure") <= 1
  /\ Occurrences(narration, FailureText) <= 1

\* C7: every hostile fire lowers the player's health by exactly 10,
\* floored at 0.
C7_FireLowersHealth ==
  [][FiresInStep > 0 =>
       RequestedHealth' = Max(0, RequestedHealth - FireDamage * FiresInStep)]_vars

\* C8: every entity's depth z is strictly positive in every reachable state.
C8_DepthPositive == \A i \in DOMAIN entities : entities[i].z > 0

\* C9: once an entity is dead it is dead in every later state.
C9_DeathPermanent ==
  [][\A i \in DOMAIN entities :
       entities[i].isDead => entities'[i].isDead]_vars

C9_Witness ==
  /\ timers = {}
  /\ pendEntities = << >>
  /\ \E i \in DOMAIN entities :
       entities[i].type = "Bodyguard" /\ entities[i].isDead

\* C10: once the game has left playing, a chain-reaction callback that was
\* scheduled before changes no entity's dead flag.
C10_CallbackNoOp ==
  [][(gameState \in {"success", "failure"}) =>
       (\A i \in DOMAIN entities :
          entities[i].isDead <=> entities'[i].isDead)]_vars

\* a barrel that a shot has struck: handleShoot of index.tsx zeroes the
\* health of what it kills, the chain reaction does not; part_000 kills
\* barrels by shots only
StruckBarrels ==
  {b \in DOMAIN entities :
     /\ entities[b].type = "Barrel"
     /\ entities[b].isDead
     /\ (variant = "part" \/ entities[b].health = 0)}

\* the blast of barrel b has no callback or state update outstanding
BlastLanded(b) ==
  /\ b \notin timers
  /\ \A j \in DOMAIN pendEntities : pendEntities[j] # b

WithinBlastRadius(b, i) ==
  /\ i # b
  /\ (entities[b].x - entities[i].x) * (entities[b].x - entities[i].x)
       + (entities[b].y - entities[i].y) * (entities[b].y - entities[i].y)
       < BlastRadius * BlastRadius

\* C11: once the blast of a struck barrel has landed, every other entity
\* within the blast radius (300) of the barrel is dead.
C11_BlastKillsNeighbours ==
  \A b \in StruckBarrels :
    BlastLanded(b) =>
      \A i \in DOMAIN entities : WithinBlastRadius(b, i) => entities[i].isDead

\* C11, the other half: the dead flag changes only for an entity that a
\* shot strikes or that lies within the blast radius of a struck barrel.
C11_NoKillOutsideBlast ==
  [][\A i \in DOMAIN entities :
       (entities'[i].isDead /\ ~entities[i].isDead) =>
         \/ ClickStep /\ i \in LivingHits
         \/ \E b \in StruckBarrels : WithinBlastRadius(b, i)]_vars

\* C12: when the mission request fails, loading ends with the fallback
\* mission loaded, the roster spawned and the game in briefing with the
\* accept button live; the game is never left without a mission.
C12_FailureLoadsFallback ==
  [][(missionRequest = "pending" /\ missionRequest' = "failed") =>
       /\ ~isLoading'
       /\ mission' = fallback
       /\ entities' # << >>
       /\ gameState' = "briefing"
       /\ (ENABLED Accept)']_vars

\* C12, as a state: after a failed request the fallback is the mission
C12_FallbackLoaded ==
  missionRequest = "failed" =>
    ~isLoading /\ mission.loaded /\ mission.title = fallback.title

\* C13: a response without objectives (no list, or an empty one) never
\* stays the loaded mission, and no state is reached in which the briefing
\* or the frame loop reads an objective that the mission does not have.
C13_NoMalformedMission ==
  /\ mission.loaded => (mission.hasObjectives /\ NumObjectives(mission) > 0)
  /\ missionRequest = "done" => (mission.loaded /\ ~isLoading /\ entities # << >>)
  /\ ~crashed

\* ------------------------------------------------ aiming under the scope --
ProjectionFrames == 3

\* swayOffset.current, sampled within the range of the heartbeat sway and
\* the screen shake
ProbeSways == {<<0, 0>>, <<24, 0>>, <<25, 0>>, <<-8, 5>>}

\* clientX, clientY, sampled: the positions of MousePositions and positions
\* that put the edge of a box on the impact point
ProbePointers(v) ==
  MousePositions(v) \cup
    (IF v = "index" THEN {<<312, 450>>, <<315, 450>>}
     ELSE {<<987, 300>>, <<990, 300>>})

\* handleMouseMove
Aim ==
  /\ ~crashed
  /\ gameState = "playing"
  /\ \E m \in ProbePointers(variant) : m # mousePos /\ mousePos' = m
  /\ UNCHANGED << variant, missionRequest, mission, isLoading, gameState,
                  currentObjIndex, playerHealth, playerHealthRef, healthUI,
                  entities, pendGameState, pendHealth, pendEntities,
                  pendRender, timers, narration, now, frames, swayOffset, crashed >>

\* requestAnimationFrame(render) at the display rate, the sway sampled
SwayTick ==
  /\ ~crashed
  /\ gameState = "playing"
  /\ mission.loaded
  /\ \E sw \in ProbeSways :
       Render(ProjectionFrames, playerHealth, currentObjIndex, entities,
              pendGameState, pendHealth, narration, DepthGap, sw)
  /\ UNCHANGED << variant, missionRequest, mission, isLoading, gameState,
                  currentObjIndex, playerHealth, healthUI, pendEntities,
                  timers, mousePos >>

NextProjection ==
  \/ MissionResponse /\ UNCHANGED effectVars
  \/ MissionFailure /\ UNCHANGED effectVars
  \/ Accept /\ UNCHANGED effectVars
  \/ Aim /\ UNCHANGED effectVars
  \/ SwayTick /\ UNCHANGED effectVars
  \/ HandleShootIndex /\ UNCHANGED effectVars
  \/ HandleShootPart /\ UNCHANGED effectVars

SpecProjection == Init /\ [][NextProjection]_vars

\* the reference projection of the specification, scale = 600 / z and
\* screen = world - (pointer - centre) * (1 - 400 / z): the impact point
\* lies within half * scale of the screen coordinate (z is the depth in
\* half units, and both sides are multiplied by 2 * z)
RefWithin(impact2, world, pointer, size, z, half) ==
  /\ z > 0
  /\ Abs((impact2 - 2 * world) * z + (2 * pointer - size) * (z - 800)) < 2 * half * 1200

RefInsideBox(i) ==
  /\ RefWithin(innerWidth + 2 * swayOffset[1], entities[i].x, mousePos[1],
               innerWidth, entities[i].z, HitHalfWidth(variant))
  /\ RefWithin(innerHeight + 2 * swayOffset[2], entities[i].y, mousePos[2],
               innerHeight, entities[i].z, HitHalfHeight(variant))

RefProjection(i) ==
  << 2 * entities[i].x * entities[i].z
       - (2 * mousePos[1] - innerWidth) * (entities[i].z - 800),
     2 * entities[i].y * entities[i].z
       - (2 * mousePos[2] - innerHeight) * (entities[i].z - 800) >>

\* C14: render() and handleShoot compute the same projection, the reference
\* one, for every entity; a click strikes exactly the living entities whose
\* projected box, as render() places it, holds the impact point.
C14_RenderAndHitAgree ==
  [][/\ \A i \in DOMAIN entities :
          /\ renderProjection(entities[i], mousePos) = RefProjection(i)
          /\ shootProjection(entities[i], mousePos) = RefProjection(i)
     /\ (ClickStep /\ gameState = "playing") =>
          \A i \in DOMAIN entities :
            ~entities[i].isDead => (RefInsideBox(i) <=> entities'[i].isDead)]_vars

C14_Witness ==
  \/ /\ variant = "index"
     /\ mousePos = <<315, 450>>
     /\ entities # << >>
     /\ entities[3].isDead
     /\ ~entities[2].isDead
  \/ /\ variant = "part"
     /\ mousePos = <<987, 300>>
     /\ entities # << >>
     /\ entities[5].isDead

\* ------------------------------------------------------------- particles --
\* life: 1.0, in units of the 0.02 that one frame takes off
ParticleLife == 50

\* life: p.life - 0.02
LifeStep == 1

\* slice(-100) / length > 200
ParticleCap(v) == IF v = "index" THEN 100 ELSE 200

\* one call of createParticles(x, y, color, count, size)
Burst(at, color, count, size) ==
  [at |-> at, color |-> color, count |-> count, size |-> size]

\* the particles one call pushes, first being the number created before
newParticles(first, b) ==
  [i \in 1..b.count |->
     [id |-> first + i, life |-> ParticleLife, color |-> b.color,
      size |-> b.size, at |-> b.at]]

\* a createParticles that keeps the oldest particles at the capacity
createParticlesKeepOldest(v, prev, new) ==
  SubSeq(prev \o new, 1, IF Len(prev \o new) > ParticleCap(v)
                         THEN ParticleCap(v) ELSE Len(prev \o new))

\* index.tsx: prev => [...prev, ...newParticles].slice(-100)
\* part_000: push, then splice(0, length - 200) if length > 200
createParticles(v, prev, new) ==
  LET all == prev \o new IN
  IF Len(all) > ParticleCap(v)
  THEN SubSeq(all, Len(all) - ParticleCap(v) + 1, Len(all))
  ELSE all

isLive(p) == p.life > 0

aged(p) == [p EXCEPT !.life = @ - LifeStep]

\* index.tsx: prev => prev.filter(p => p.life > 0).map(p => ({...p, life: p.life - 0.02}))
advanceIndex(prev) ==
  LET kept == SelectSeq(prev, isLive) IN [i \in DOMAIN kept |-> aged(kept[i])]

\* part_000: forEach p.life -= 0.02, then filter(p => p.life > 0)
advancePart(list) ==
  SelectSeq([i \in DOMAIN list |-> aged(list[i])], isLive)

\* the bursts of the return fire of one render(), n entities firing:
\* the damage burst at the centre and, in index.tsx, the flash on the source
RECURSIVE fireBursts(_, _)
fireBursts(v, n) ==
  IF n = 0 THEN << >>
  ELSE (IF v = "index"
        THEN << Burst("centre", "#ff0000", 5, 4), Burst("source", "#ffff00", 10, 2) >>
        ELSE << Burst("centre", "#ff0000", 5, 4) >>)
       \o fireBursts(v, n - 1)

\* the bursts of handleShoot for roster entry i
hitBursts(v, ent) ==
  IF v = "index"
  THEN IF ent.type = "Barrel"
       THEN << Burst("impact", "#ffaa00", 15, 2), Burst("impact", "#ff5500", 40, 5) >>
       ELSE << Burst("impact", "#ff0000", 15, 2) >>
  ELSE << Burst("impact", "#f00", 15, 2) >>

\* if (!hitOccurred) createParticles(impactX, impactY, '#ffffff', 3, 1)
ricochet(v) ==
  << Burst("impact", IF v = "index" THEN "#ffffff" ELSE "#fff", 3, 1) >>

RECURSIVE hitBurstsFrom(_, _, _, _)
hitBurstsFrom(v, ents, hits, i) ==
  IF i > Len(ents) THEN << >>
  ELSE (IF i \in hits THEN hitBursts(v, ents[i]) ELSE << >>)
       \o hitBurstsFrom(v, ents, hits, i + 1)

\* the createParticles calls of one handleShoot, in order
shootBursts(v, ents, hits) ==
  IF hits = {} THEN ricochet(v) ELSE hitBurstsFrom(v, ents, hits, 1)

RECURSIVE burstTotal(_)
burstTotal(bs) == IF bs = << >> THEN 0 ELSE Head(bs).count + burstTotal(Tail(bs))

\* part_000: the calls push into particlesRef.current at once
RECURSIVE pushBursts(_, _, _, _)
pushBursts(v, list, bs, first) ==
  IF bs = << >> THEN list
  ELSE pushBursts(v, createParticles(v, list, newParticles(first, Head(bs))),
                  Tail(bs), first + Head(bs).count)

\* index.tsx: each call queues one setParticles updater
RECURSIVE burstUpdaters(_, _)
burstUpdaters(bs, first) ==
  IF bs = << >> THEN << >>
  ELSE << [kind |-> "burst", new |-> newParticles(first, Head(bs))] >>
       \o burstUpdaters(Tail(bs), first + Head(bs).count)

advanceUpdater == [kind |-> "advance", new |-> << >>]

RECURSIVE applyParticleUpdaters(_, _)
applyParticleUpdaters(prev, q) ==
  IF q = << >> THEN prev
  ELSE applyParticleUpdaters(
         IF Head(q).kind = "burst" THEN createParticles("index", prev, Head(q).new)
         ELSE advanceIndex(prev),
         Tail(q))

\* the entities whose lastFireTime the step has set
firedInStep ==
  Cardinality({i \in DOMAIN entities :
                 entities'[i].lastFireTime # entities[i].lastFireTime})

\* the particle work of one render(): the bursts of the fire, then the
\* advance of every particle
renderParticles(list, q, first) ==
  LET bs == fireBursts(variant, firedInStep) IN
  /\ spawned' = first + burstTotal(bs)
  /\ IF variant = "index"
     THEN /\ particles' = list
          /\ pendParticles' = q \o burstUpdaters(bs, first) \o << advanceUpdater >>
     ELSE /\ particles' = advancePart(pushBursts(variant, list, bs, first))
          /\ pendParticles' = q

\* ------------------------------------------------- particles in the game --
\* calls of render() followed from the sampled mid-game state
ParticleFrames == 3

\* clicks followed from the sampled mid-game state
MaxShots == 2

\* What earlier bursts have left in the list when the game is sampled:
\* nothing; misses in a row that fill it to just under the capacity; a
\* damage burst and a miss that are one and two frames from their end.
ParticleSeeds(v) ==
  { << >>,
    [i \in 1..(3 * ((ParticleCap(v) - 1) \div 3)) |->
       [id |-> i, life |-> ParticleLife, color |-> ricochet(v)[1].color,
        size |-> ricochet(v)[1].size, at |-> ricochet(v)[1].at]],
    [i \in 1..8 |->
       IF i <= 5
       THEN [id |-> i, life |-> LifeStep, color |-> "#ff0000", size |-> 4,
             at |-> "centre"]
       ELSE [id |-> i, life |-> 2 * LifeStep, color |-> ricochet(v)[1].color,
             size |-> ricochet(v)[1].size, at |-> ricochet(v)[1].at]] }

\* The game a few frames before the frame cap, the roster as spawned, no
\* update queued, and the particle list one of the sampled ones; or the
\* player one fire from the end, with no particle left.
InitParticles ==
  /\ variant \in Variants
  /\ missionRequest = IF variant = "index" THEN "done" ELSE "failed"
  /\ mission = IF variant = "index"
               THEN Loaded("OP-A", << Objective("destroy", "a1"),
                                      Objective("eliminate", "a2") >>)
               ELSE fallback
  /\ isLoading = FALSE
  /\ gameState = "playing"
  /\ currentObjIndex = 0
  /\ playerHealth \in {MAX_PLAYER_HEALTH, FireDamage}
  /\ playerHealthRef = playerHealth
  /\ healthUI = playerHealth
  /\ entities = spawnEntities(variant)
  /\ pendGameState = << >>
  /\ pendHealth = << >>
  /\ pendEntities = << >>
  /\ pendRender = FALSE
  /\ timers = {}
  /\ narration = << >>
  /\ now = StartTime
  /\ frames = MaxFrames - ParticleFrames
  /\ mousePos = IF variant = "index" THEN <<0, 0>>
                ELSE <<innerWidth \div 2, innerHeight \div 2>>
  /\ swayOffset = <<0, 0>>
  /\ crashed = FALSE
  /\ particles \in IF playerHealth = MAX_PLAYER_HEALTH
                  THEN ParticleSeeds(variant) ELSE {<< >>}
  /\ pendParticles = << >>
  /\ spawned = Len(particles)
  /\ shotsFired = 0
  /\ speech = {}

\* requestAnimationFrame(render) with its particle work
TickFx ==
  /\ Tick
  /\ renderParticles(particles, pendParticles, spawned)
  /\ UNCHANGED << shotsFired, speech >>

\* part_000 handleShoot with its createParticles calls
HandleShootPartFx ==
  /\ shotsFired < MaxShots
  /\ HandleShootPart
  /\ shotsFired' = shotsFired + 1
  /\ LET bs == shootBursts(variant, entities,
                           hitSet(variant, entities, mousePos, swayOffset))
     IN /\ particles' = pushBursts(variant, particles, bs, spawned)
        /\ spawned' = spawned + burstTotal(bs)
  /\ UNCHANGED << pendParticles, speech >>

\* index.tsx handleShoot with its createParticles calls: the flush applies
\* every queued setParticles updater, and the render effect queues the next
HandleShootIndexFx ==
  /\ shotsFired < MaxShots
  /\ HandleShootIndex
  /\ shotsFired' = shotsFired + 1
  /\ UNCHANGED speech
  /\ LET bs == shootBursts(variant, entities,
                           hitSet(variant, entities, mousePos, swayOffset))
         list1 == applyParticleUpdaters(particles,
                                        pendParticles \o burstUpdaters(bs, spawned))
     IN IF frames' # frames
        THEN renderParticles(list1, << >>, spawned + burstTotal(bs))
        ELSE /\ particles' = list1
             /\ pendParticles' = << >>
             /\ spawned' = spawned + burstTotal(bs)

\* index.tsx commit with the queued setParticles updaters
CommitIndexFx ==
  /\ CommitIndex
  /\ UNCHANGED << shotsFired, speech >>
  /\ LET list1 == applyParticleUpdaters(particles, pendParticles)
     IN IF frames' # frames
        THEN renderParticles(list1, << >>, spawned)
        ELSE /\ particles' = list1
             /\ pendParticles' = << >>
             /\ spawned' = spawned

NextParticles ==
  \/ MouseMove /\ UNCHANGED effectVars
  \/ TickFx
  \/ HandleShootIndexFx
  \/ HandleShootPartFx
  \/ ChainReaction /\ UNCHANGED effectVars
  \/ CommitIndexFx
  \/ CommitPart /\ UNCHANGED effectVars

SpecParticles == InitParticles /\ [][NextParticles]_vars

\* ---------------------------------------------------------------- C15 ----
\* C15: no particle whose life is at or below zero is in the live list
\* once a frame's advance step has been applied.
C15_NoSpentParticle ==
  \A i \in DOMAIN particles : particles[i].life > 0

\* ---------------------------------------------------------------- C16 ----
RECURSIVE QueuedParticles(_)
QueuedParticles(q) ==
  IF q = << >> THEN 0 ELSE Len(Head(q).new) + QueuedParticles(Tail(q))

\* the particles that have reached the list: all of them in part_000, the
\* ones whose setParticles updater has been applied in index.tsx
Landed == spawned - QueuedParticles(pendParticles)

Smaller(a, b) == IF a < b THEN a ELSE b

CapacityKept ==
  /\ Len(particles) <= ParticleCap(variant)
  /\ \A i \in 1..(Len(particles) - 1) : particles[i + 1].id = particles[i].id + 1
  /\ particles # << >> => particles[Len(particles)].id = Landed

NewestKept ==
  Landed' > Landed =>
    /\ Len(particles') >= Smaller(ParticleCap(variant), Landed' - Landed)
    /\ \A n \in 1..Smaller(ParticleCap(variant), Landed' - Landed) :
         particles'[Len(particles') - n + 1].id = Landed' - n + 1

\* C16: the live list never holds more than the capacity; it is always a
\* run of consecutive particles in spawn order that ends with the newest
\* one landed, so whatever a burst pushed out is older than everything
\* kept; and a step that lands new particles leaves all of them (up to the
\* capacity) at the end of the list in spawn order.
C16_CapacityDropsOldest == [](CapacityKept) /\ [][NewestKept]_vars

\* a click has landed a burst on a list that was full: the front is gone,
\* the list is at the capacity and ends with the burst
C16_Witness ==
  /\ shotsFired > 0
  /\ Len(particles) = ParticleCap(variant)
  /\ particles[1].id > 1
  /\ particles[Len(particles)].id = Landed
  /\ particles[Len(particles)].life = ParticleLife
  /\ particles[1].life > ParticleLife - MaxFrames

\* ---------------------------------------------------------------- C17 ----
\* frames followed with both short and long gaps between them
FireFrames == 4

\* Date.now() differences between two calls of render(): the display rate
\* and just over the cooldown
FireGaps(v) == {DepthGap, Cooldown(v) + 1}

\* requestAnimationFrame(render), the next frame coming early or late
FireTick ==
  /\ ~crashed
  /\ gameState = "playing"
  /\ mission.loaded
  /\ \E gap \in FireGaps(variant), sw \in SwayOffsets :
       Render(FireFrames, playerHealth, currentObjIndex, entities,
              pendGameState, pendHealth, narration, gap, sw)
  /\ UNCHANGED << variant, missionRequest, mission, isLoading, gameState,
                  currentObjIndex, playerHealth, healthUI, pendEntities,
                  timers, mousePos >>

NextFire ==
  \/ MissionResponse /\ UNCHANGED effectVars
  \/ MissionFailure /\ UNCHANGED effectVars
  \/ MouseMove /\ UNCHANGED effectVars
  \/ Accept /\ UNCHANGED effectVars
  \/ FireTick /\ UNCHANGED effectVars
  \/ HandleShootIndex /\ UNCHANGED effectVars
  \/ HandleShootPart /\ UNCHANGED effectVars
  \/ ChainReaction /\ UNCHANGED effectVars
  \/ CommitIndex /\ UNCHANGED effectVars
  \/ CommitPart /\ UNCHANGED effectVars

SpecFire == Init /\ [][NextFire]_vars

ClaimedCooldown == IF variant = "index" THEN 2000 ELSE 3000

\* the step has run render()
FrameRan == frames' = frames + 1

\* C17: in a step that runs a frame, an entity's last fire time is set, to
\* the current time, exactly when the entity is alive at that frame,
\* hostile, and more than the cooldown past its own last fire time; every
\* other last fire time stays, and a step without a frame changes none.
C17_FireIffCooldownElapsed ==
  [][\A i \in DOMAIN entities :
       LET due == /\ FrameRan
                  /\ i \in DOMAIN entities'
                  /\ ~entities'[i].isDead
                  /\ entities[i].isHostile
                  /\ now' - entities[i].lastFireTime > ClaimedCooldown
       IN /\ i \in DOMAIN entities'
          /\ entities'[i].lastFireTime =
               IF due THEN now' ELSE entities[i].lastFireTime]_vars

\* the guard has just fired again, an earlier fire of it and a frame that
\* came before the cooldown was over lying behind it
C17_Witness ==
  /\ \E i \in DOMAIN entities :
       entities[i].isHostile /\ ~entities[i].isDead /\ entities[i].lastFireTime = now
  /\ RequestedHealth <= MAX_PLAYER_HEALTH - 2 * FireDamage
  /\ (now - StartTime) % (ClaimedCooldown + 1) # 0

ShotStep == ClickStep /\ shotsFired' = shotsFired + 1

\* the impact point lies in the box of some dead entity and of no living one
OnlyDeadUnderPointer ==
  /\ LivingHits = {}
  /\ \E i \in DOMAIN entities : entities[i].isDead /\ RefInsideBox(i)

\* C19: a click whose point lies only inside boxes of dead entities starts
\* no chain reaction, leaves the objective index where it is and changes
\* no entity.
C19_DeadClickChangesNothing ==
  [][(ShotStep /\ OnlyDeadUnderPointer) =>
       /\ timers' = timers
       /\ currentObjIndex' = currentObjIndex
       /\ entities' = entities]_vars

\* C19, the part about the dead entities themselves: such a click starts
\* no chain reaction, advances no objective, ends no mission with success
\* and leaves the dead flag and the health of every entity as they were.
C19_DeadNeverStruck ==
  [][(ShotStep /\ OnlyDeadUnderPointer) =>
       /\ timers' = timers
       /\ currentObjIndex' = currentObjIndex
       /\ gameState' # "success"
       /\ Len(entities') = Len(entities)
       /\ \A i \in DOMAIN entities :
            /\ entities'[i].isDead = entities[i].isDead
            /\ entities'[i].health = entities[i].health]_vars

\* ---------------------------------------------------------------- C20 ----
IsRicochet(p) ==
  /\ p.at = "impact"
  /\ p.color \in {"#ffffff", "#fff"}
  /\ p.size = 1
  /\ p.life = 50

\* C20: a click while playing that strikes no living entity spawns the
\* three ricochet particles and nothing else, and leaves every entity, the
\* objective index, the player's health and the game state as they were.
C20_MissChangesNothing ==
  [][(ShotStep /\ LivingHits = {}) =>
       /\ spawned' = spawned + 3
       /\ entities' = entities
       /\ currentObjIndex' = currentObjIndex
       /\ RequestedHealth' = RequestedHealth
       /\ gameState' = gameState]_vars

\* C20, the part about the click's own work: the miss puts the three
\* ricochet particles at the end of the list, strikes no entity (dead flags
\* and health stay), starts no chain reaction and advances no objective.
C20_MissSpawnsRicochet ==
  [][(ShotStep /\ LivingHits = {}) =>
       /\ Len(particles') >= 3
       /\ \A n \in 1..3 :
            /\ IsRicochet(particles'[Len(particles') - 3 + n])
            /\ particles'[Len(particles') - 3 + n].id = spawned + n
       /\ timers' = timers
       /\ currentObjIndex' = currentObjIndex
       /\ \A i \in DOMAIN entities :
            /\ entities'[i].isDead = entities[i].isDead
            /\ entities'[i].health = entities[i].health]_vars

\* ---------------------------------------------------------------- C21 ----
\* C21: every entity a click strikes is, once the click has been handled,
\* marked dead and has health 0.
C21_StruckDeadAndSpent ==
  [][ClickStep =>
       \A i \in LivingHits :
         /\ entities'[i].isDead
         /\ entities'[i].health = 0]_vars

\* C21, the dead flag alone: every entity a click strikes is marked dead.
C21_StruckDead ==
  [][ClickStep => \A i \in LivingHits : entities'[i].isDead]_vars

\* ------------------------------------------------------------- narration --
\* how a speakSpotter call ends after its await: source.start(), or the
\* catch block (a response without audio data ends like the catch block,
\* with nothing started)
SpeechOutcomes == {"played", "failed"}

\* the speakSpotter calls still awaiting the provider, by position in the
\* order of the calls
awaitingSpeech == {i \in DOMAIN narration : \A o \in SpeechOutcomes : <<i, o>> \notin speech}

\* a speakSpotter whose completion resets the objective index
speechSettledGame(idx) == 0

\* what the code after the await does to the objective index: nothing
speechSettled(idx) == idx

\* speakSpotter after the await: the audio is started, or the request or
\* the decoding threw and the catch logged it
SpeechSettles ==
  /\ \E i \in awaitingSpeech, o \in SpeechOutcomes : speech' = speech \cup {<<i, o>>}
  /\ currentObjIndex' = speechSettled(currentObjIndex)
  /\ UNCHANGED << variant, missionRequest, mission, isLoading, gameState,
                  playerHealth, playerHealthRef, healthUI, entities,
                  pendGameState, pendHealth, pendEntities, pendRender, timers,
                  narration, now, frames, mousePos, swayOffset, crashed,
                  particleVars >>

\* frames followed while narration requests are in flight
SpeechFrames == 2

\* requestAnimationFrame(render) while narration requests are in flight
SpeechTick ==
  /\ ~crashed
  /\ gameState = "playing"
  /\ mission.loaded
  /\ \E gap \in FrameGaps(variant), sw \in SwayOffsets :
       Render(SpeechFrames, playerHealth, currentObjIndex, entities,
              pendGameState, pendHealth, narration, gap, sw)
  /\ UNCHANGED << variant, missionRequest, mission, isLoading, gameState,
                  currentObjIndex, playerHealth, healthUI, pendEntities,
                  timers, mousePos >>

NextSpeech ==
  \/ MissionResponse /\ UNCHANGED effectVars
  \/ MissionFailure /\ UNCHANGED effectVars
  \/ MouseMove /\ UNCHANGED effectVars
  \/ Accept /\ UNCHANGED effectVars
  \/ SpeechTick /\ UNCHANGED effectVars
  \/ HandleShootIndex /\ UNCHANGED effectVars
  \/ HandleShootPart /\ UNCHANGED effectVars
  \/ ChainReaction /\ UNCHANGED effectVars
  \/ CommitIndex /\ UNCHANGED effectVars
  \/ CommitPart /\ UNCHANGED effectVars
  \/ SpeechSettles

SpecSpeech == Init /\ [][NextSpeech]_vars

\* ---------------------------------------------------------------- C22 ----
\* C22: a narration request that ends, with audio or with a failure, at
\* whatever time, leaves the game state, the objective index, the entities,
\* the health, the mission and every queued update as they were.
C22_NarrationEndsChangeNothing ==
  [][(speech' # speech) =>
       UNCHANGED << gameState, currentObjIndex, entities, playerHealth,
                    playerHealthRef, healthUI, mission, isLoading,
                    pendGameState, pendHealth, pendEntities, timers,
                    narration, crashed >>]_vars

\* the game is over, past its first objective, and the narration of the
\* ending has been played after that; the first narration has failed
C22_Witness ==
  /\ gameState \in {"success", "failure"}
  /\ currentObjIndex > 0
  /\ Len(narration) > 1
  /\ <<Len(narration), "played">> \in speech
  /\ <<1, "failed">> \in speech

\* ---------------------------------------------------------------- C23 ----
\* the living flanking entities of index.tsx
LivingFlankers ==
  {i \in DOMAIN entities :
     variant = "index" /\ entities[i].behavior = "flanking" /\ ~entities[i].isDead}

\* 400 <= z <= 1000, z being kept in half units
DepthInBand == \A i \in LivingFlankers : entities[i].z >= 800 /\ entities[i].z <= 2000

\* a frame takes 0.5 off z, or puts z at 1000 when that would leave it
\* under 400; a step without a frame leaves z as it is
FlankingStep ==
  \A i \in LivingFlankers :
    i \in DOMAIN entities' =>
      entities'[i].z =
        IF ~FrameRan \/ entities'[i].isDead THEN entities[i].z
        ELSE IF entities[i].z - 1 < 800 THEN 2000
        ELSE entities[i].z - 1

\* C23: in index.tsx a living flanking entity loses exactly 0.5 of z per
\* frame and is put back to 1000 in the frame in which it would drop under
\* 400, so 400 <= z <= 1000 holds for it in every state (and with it
\* 1 - 400/z >= 0).
C23_FlankingDepthInBand == [](DepthInBand) /\ [][FlankingStep]_vars

\* the guard has come in to 400 and has been put back to 1000 since
C23_Witness ==
  \E i \in LivingFlankers : entities[i].z > 1400 /\ entities[i].z < 2000

\* ---------------------------------------------------------------- C24 ----
\* C24: one click moves the objective index by at most one, and never to
\* a value at or past the number of objectives, however many living
\* entities that match the active objective lie under the impact point.
C24_ClickAdvancesAtMostOne ==
  [][ClickStep =>
       /\ currentObjIndex' \in {currentObjIndex, currentObjIndex + 1}
       /\ currentObjIndex' # currentObjIndex =>
            currentObjIndex' < NumObjectives(mission)]_vars

\* one click has struck two barrels that both matched the first objective
\* (both are narrated) and the index is 1
C24_Witness ==
  /\ mission.loaded
  /\ NumObjectives(mission) = 2
  /\ mission.objectives[1].type = "destroy"
  /\ currentObjIndex = 1
  /\ Cardinality(StruckBarrels) >= 2
  /\ Occurrences(narration, NextText(mission, 0)) = 2

\* ---------------------------------------------------------------- C25 ----
\* C25: a click kills every living entity whose scaled box holds the
\* impact point and leaves every other entity unchanged.
C25_KillsBoxedLeavesRest ==
  [][ClickStep =>
       \A i \in DOMAIN entities :
         IF ~entities[i].isDead /\ RefInsideBox(i)
         THEN entities'[i].isDead
         ELSE entities'[i] = entities[i]]_vars

\* C25, the choice of the victims: after a click the dead entities are the
\* ones that were dead and the living ones whose box (half-extents 25x50 in
\* index.tsx, 30x60 in part_000, times 600/z, strict at the edge) held the
\* impact point, all of them and no other; no other entity's health
\* changes.
C25_VictimsAreTheBoxed ==
  [][ClickStep =>
       /\ HitHalfWidth(variant) = (IF variant = "index" THEN 25 ELSE 30)
       /\ HitHalfHeight(variant) = (IF variant = "index" THEN 50 ELSE 60)
       /\ \A i \in DOMAIN entities :
            /\ entities'[i].isDead = (entities[i].isDead \/ RefInsideBox(i))
            /\ (entities[i].isDead \/ ~RefInsideBox(i)) =>
                 entities'[i].health = entities[i].health]_vars

\* ---------------------------------------------------------------- C26 ----
\* the entities the step kills without a click having struck them: the
\* blast of a chain reaction sets the dead flag and leaves the health,
\* a strike puts the health at 0
ChainKilled ==
  {i \in DOMAIN entities :
     /\ variant = "index"
     /\ i \in DOMAIN entities'
     /\ ~entities[i].isDead
     /\ entities'[i].isDead
     /\ entities'[i].health > 0}

NonSatisfyingShot == ShotStep /\ LivingHits # {} /\ ~SatisfyingHit

\* the fifteen particles of the first impact burst of the click have
\* reached the list, at the impact point and with their full life
ImpactBurstLanded ==
  \A n \in 1..15 :
    \E j \in DOMAIN particles' :
      /\ particles'[j].id = spawned + n
      /\ particles'[j].at = "impact"
      /\ particles'[j].size = 2
      /\ particles'[j].life = 50

ReconResponses ==
  { Loaded("OP-R", << Objective("recon", "r1"), Objective("destroy", "r2") >>),
    Loaded("OP-S", << Objective("destroy", "s1"), Objective("recon", "s2") >>),
    Loaded("OP-T", << Objective("patrol", "t1"), Objective("eliminate", "t2") >>) }

\* The briefing screen once the provider has answered with such a mission:
\* generateMission has stored it, spawned the roster and asked for the
\* introduction to be spoken.
InitRecon ==
  /\ variant \in Variants
  /\ missionRequest = "done"
  /\ mission \in ReconResponses
  /\ isLoading = FALSE
  /\ gameState = "briefing"
  /\ currentObjIndex = 0
  /\ playerHealth = MAX_PLAYER_HEALTH
  /\ playerHealthRef = MAX_PLAYER_HEALTH
  /\ healthUI = MAX_PLAYER_HEALTH
  /\ entities = spawnEntities(variant)
  /\ pendGameState = << >>
  /\ pendHealth = << >>
  /\ pendEntities = << >>
  /\ pendRender = FALSE
  /\ timers = {}
  /\ narration = << IntroText(mission) >>
  /\ now = StartTime
  /\ frames = 0
  /\ mousePos = IF variant = "index" THEN <<0, 0>>
                ELSE <<innerWidth \div 2, innerHeight \div 2>>
  /\ swayOffset = <<0, 0>>
  /\ crashed = FALSE
  /\ particles = << >>
  /\ pendParticles = << >>
  /\ spawned = 0
  /\ shotsFired = 0
  /\ speech = {}

NextRecon ==
  \/ MouseMove /\ UNCHANGED effectVars
  \/ Accept /\ UNCHANGED effectVars
  \/ Tick /\ UNCHANGED effectVars
  \/ HandleShootIndex /\ UNCHANGED effectVars
  \/ HandleShootPart /\ UNCHANGED effectVars
  \/ ChainReaction /\ UNCHANGED effectVars
  \/ CommitIndex /\ UNCHANGED effectVars
  \/ CommitPart /\ UNCHANGED effectVars

SpecRecon == InitRecon /\ [][NextRecon]_vars

\* ---------------------------------------------------------------- C28 ----
\* the active objective is of a kind no kill can meet
ReconActive ==
  /\ mission.loaded
  /\ currentObjType(mission, currentObjIndex)
       \notin {"destroy", "retrieve", "eliminate", "undefined"}

\* C28: while the active objective's kind is recon, or any kind other than
\* destroy, retrieve and eliminate, no click, frame tick, commit or deferred
\* callback changes the objective index or brings success, and the game
\* leaves playing through failure only.
C28_ReconNeverCompletes ==
  [][ReconActive =>
       /\ currentObjIndex' = currentObjIndex
       /\ gameState' # "success"
       /\ ~NewlyNarrated(SuccessText(variant))
       /\ (gameState = "playing" /\ gameState' # "playing")
             => gameState' = "failure"]_vars

\* the game has ended in failure on an objective of no kill, reached by
\* completing the one before it, with entities shot on the way
C28_Witness ==
  /\ ReconActive
  /\ gameState = "failure"
  /\ currentObjIndex = 1
  /\ \E i \in DOMAIN entities : entities[i].isDead /\ entities[i].type # "Barrel"

\* ---------------------------------------------------------------- C29 ----
\* the entities that were dead before the step are where they were, and
\* their last fire time is what it was
DeadStill ==
  \A i \in DOMAIN entities :
    entities[i].isDead =>
      /\ i \in DOMAIN entities'
      /\ entities'[i].x = entities[i].x
      /\ entities'[i].z = entities[i].z
      /\ entities'[i].lastFireTime = entities[i].lastFireTime

\* nothing of what render() does has happened in the step: no entity has
\* moved or fired, no damage and no failure has been requested
NoFrameEffect ==
  /\ \A i \in DOMAIN entities \cap DOMAIN entities' :
       /\ entities'[i].x = entities[i].x
       /\ entities'[i].z = entities[i].z
       /\ entities'[i].lastFireTime = entities[i].lastFireTime
  /\ playerHealthRef' = playerHealthRef
  /\ Len(pendHealth') <= Len(pendHealth)
  /\ Len(pendGameState') <= Len(pendGameState)
  /\ ~NewlyNarrated(FailureText)
  /\ now' = now

\* before play starts nothing has run: full health, no frame, the roster
\* as spawned (or not spawned yet), nothing queued
Untouched ==
  /\ playerHealth = MAX_PLAYER_HEALTH
  /\ playerHealthRef = MAX_PLAYER_HEALTH
  /\ healthUI = MAX_PLAYER_HEALTH
  /\ frames = 0
  /\ entities \in {<< >>, spawnEntities(variant)}
  /\ pendHealth = << >>
  /\ pendGameState = << >>

\* C29: a call of render() leaves the x, z and last fire time of every
\* entity that was dead before it as they were, it runs only with the
\* game state playing and a mission loaded, and a step without such a call
\* moves no entity, fires no shot and requests no damage or failure; so
\* until play starts the health is 100 and the entities are as spawned.
C29_FrameEffectsOnlyInPlay ==
  /\ [](gameState = "briefing" => Untouched)
  /\ [][/\ FrameRan => (DeadStill /\ gameState' = "playing" /\ mission'.loaded)
        /\ ~FrameRan => NoFrameEffect]_vars

\* play is on with the target, who paces, shot dead, and a dead hostile
\* guard whose last fire is older than the last frame: a frame has run
\* over both, and the living have moved and fired since play started
C29_Witness ==
  /\ gameState = "playing"
  /\ Health < MAX_PLAYER_HEALTH
  /\ \E i \in DOMAIN entities :
       entities[i].isDead /\ entities[i].behavior = "pacing"
  /\ \E i \in DOMAIN entities :
       /\ entities[i].isDead
       /\ entities[i].isHostile
       /\ entities[i].behavior = "flanking"
       /\ entities[i].lastFireTime < now

====
